---- MODULE Spec2Model ----
(***************************************************************************)
(* A model of business_rules2: the evaluator (engine.py), the rule-file    *)
(* reader and the translator (parser.py).                                  *)
(*                                                                         *)
(* Python values are modelled with an explicit runtime type where the code *)
(* dispatches on it (isinstance, .keys()).  A call that can raise returns  *)
(* a record [raised, ret, events]: events is the sequence of provider      *)
(* members the call invoked, in order.                                     *)
(***************************************************************************)
EXTENDS Integers, Sequences, FiniteSets, TLC

VARIABLES
    op,                     \* the entry point that was called
    pc,                     \* position of the call: "call", "loop", "returned", "raised"
    rule_list,              \* run_all's rule_list (run: the one rule, as a list)
    defined_variables,      \* the variables provider: exposed field name -> raw value
    stop_on_first_trigger,  \* run_all's flag
    idx,                    \* run_all: index of the next rule of the for loop
    rule_was_triggered,     \* run_all's local
    defined_actions,        \* the actions provider: the members exposed, those raising
    result,                 \* the value returned
    log,                    \* provider members invoked so far, in order
    text,                   \* parsestr's text
    lineno,                 \* parsestr: index of the next line of the for loop
    rules,                  \* parsestr's OrderedDict
    rulename,               \* parsestr's locals
    is_condition,
    is_action,
    entries,                \* translate's argument, the output of a parse
    translated,             \* translate's result
    raw_value,              \* the value a type is constructed from
    other_value,            \* the argument of an operator of a type
    self_value              \* the type's self.value

parserVars == <<text, lineno, rules, rulename, is_condition, is_action>>

translateVars == <<entries, translated>>

typeVars == <<raw_value, other_value, self_value>>

vars == <<op, pc, rule_list, defined_variables, stop_on_first_trigger, idx,
          rule_was_triggered, defined_actions, result, log, parserVars, translateVars,
          typeVars>>

----------------------------------------------------------------------------
(* Bounds *)

\* most nodes of a condition tree
MaxNodes == 3
\* most action calls of a rule given to run
MaxActions == 2
\* most rules of a list given to run_all
MaxRules == 2
\* most lines of a text given to parsestr
MaxLines == 4
\* most rule blocks of a text given to run and run_all
MaxBlocks == 2
\* most comparisons of a list given to translate
MaxTerms == 3
\* most items of a container given to SelectMultipleType
MaxItems == 3

----------------------------------------------------------------------------
(* Helpers *)

Range(s) == {s[i] : i \in 1..Len(s)}

SeqsUpTo(S, n) == UNION {[1..k -> S] : k \in 0..n}

Ret(v, ev) == [raised |-> FALSE, ret |-> v, events |-> ev]

Raise(ev) == [raised |-> TRUE, ret |-> FALSE, events |-> ev]

VarEvent(name) == [kind |-> "variable", name |-> name, params |-> {}]

ActEvent(name, params) == [kind |-> "action", name |-> name, params |-> params]

----------------------------------------------------------------------------
(* Normalized rules: condition nodes are Python dicts.  keys is            *)
(* list(conditions.keys()); the other fields hold the values of the keys   *)
(* that are present.                                                       *)

LeafKeys == <<"name", "operator", "value">>

Leaf(n, o, v) ==
    [type |-> "dict", keys |-> LeafKeys, name |-> n, operator |-> o, value |-> v,
     all |-> <<>>, any |-> <<>>]

Group(c, children) ==
    [type |-> "dict", keys |-> <<c>>, name |-> "", operator |-> "", value |-> 0,
     all |-> IF c = "all" THEN children ELSE <<>>,
     any |-> IF c = "any" THEN children ELSE <<>>]

\* the field the variables provider exposes, and one it does not
KnownField == "age"
UnknownField == "height"

OlderThan18 == Leaf(KnownField, "greater_than", 18)
YoungerThan65 == Leaf(KnownField, "less_than", 65)
HeightLeaf == Leaf(UnknownField, "greater_than", 18)

Leaves == {OlderThan18, YoungerThan65, HeightLeaf}

\* nodes that break the shape of a condition node
NoKeys == [Leaf("", "", 0) EXCEPT !.keys = <<>>]
BothKeys == [Group("all", <<OlderThan18>>) EXCEPT !.keys = <<"all", "any">>,
                                                  !.any = <<OlderThan18>>]
GroupWithLeafKeys == [OlderThan18 EXCEPT !.keys = <<"all">> \o LeafKeys,
                                         !.all = <<OlderThan18>>]

AnyWithLeafKeys == [OlderThan18 EXCEPT !.keys = LeafKeys \o <<"any">>,
                                       !.any = <<OlderThan18>>]

Malformed == {NoKeys, BothKeys, GroupWithLeafKeys, AnyWithLeafKeys}

EmptyGroups == {Group("all", <<>>), Group("any", <<>>)}

RECURSIVE TreesOfSize(_, _)
RECURSIVE ForestsOfSize(_, _)
\* the condition trees of exactly n nodes whose childless nodes are in atoms
TreesOfSize(atoms, n) ==
    IF n = 1 THEN atoms
    ELSE {Group(c, f) : c \in {"all", "any"}, f \in ForestsOfSize(atoms, n - 1)}

\* the non-empty sequences of trees of n nodes in all
ForestsOfSize(atoms, n) ==
    UNION {{<<t>> \o f : t \in TreesOfSize(atoms, k),
                         f \in (IF k = n THEN {<<>>} ELSE ForestsOfSize(atoms, n - k))}
           : k \in 1..n}

Trees(atoms) == UNION {TreesOfSize(atoms, n) : n \in 1..MaxNodes}

----------------------------------------------------------------------------
(* operators.py: NumericType, on the integers (two integers differ by more *)
(* than EPSILON = 0.000001 exactly when they differ).                      *)

NumericOperators ==
    {"equal_to", "greater_than", "greater_than_or_equal_to", "less_than",
     "less_than_or_equal_to"}

NumericType(operator_name, value, other_numeric) ==
    CASE operator_name = "equal_to" -> value = other_numeric
      [] operator_name = "greater_than" -> value - other_numeric > 0
      [] operator_name = "greater_than_or_equal_to" ->
            value - other_numeric > 0 \/ value = other_numeric
      [] operator_name = "less_than" -> other_numeric - value > 0
      [] operator_name = "less_than_or_equal_to" ->
            other_numeric - value > 0 \/ value = other_numeric

----------------------------------------------------------------------------
(* engine.py: condition evaluation *)

\* a lookup that yields a default for a name that is not exposed
get_variable_value_default(dv, name) ==
    IF name \in DOMAIN dv
    THEN [raised |-> FALSE, value |-> dv[name], events |-> <<VarEvent(name)>>]
    ELSE [raised |-> FALSE, value |-> 0, events |-> <<>>]

\* getattr(defined_variables, name, fallback)(): the fallback raises
get_variable_value(dv, name) ==
    IF name \in DOMAIN dv
    THEN [raised |-> FALSE, value |-> dv[name], events |-> <<VarEvent(name)>>]
    ELSE [raised |-> TRUE, value |-> 0, events |-> <<>>]

\* getattr(operator_type, operator_name, fallback)(comparison_value)
do_operator_comparison(operator_type, operator_name, comparison_value) ==
    IF operator_name \in NumericOperators
    THEN Ret(NumericType(operator_name, operator_type, comparison_value), <<>>)
    ELSE Raise(<<>>)

check_condition(condition, dv) ==
    IF ~(Range(LeafKeys) \subseteq Range(condition.keys))
    THEN Raise(<<>>)
    ELSE LET v == get_variable_value(dv, condition.name) IN
         IF v.raised THEN Raise(v.events)
         ELSE LET r == do_operator_comparison(v.value, condition.operator, condition.value) IN
              [r EXCEPT !.events = v.events \o r.events]

RECURSIVE check_conditions_recursively(_, _)

\* for condition in conditions['all'], from the i-th on
RECURSIVE all_loop(_, _, _, _)
all_loop(children, i, dv, ev) ==
    IF i > Len(children) THEN Ret(TRUE, ev)
    ELSE LET r == check_conditions_recursively(children[i], dv) IN
         IF r.raised THEN Raise(ev \o r.events)
         ELSE IF ~r.ret THEN Ret(FALSE, ev \o r.events)
         ELSE all_loop(children, i + 1, dv, ev \o r.events)

\* an ANY loop that stops at the first false child, as the ALL loop does
any_loop_like_all(children, i, dv, ev) == all_loop(children, i, dv, ev)

\* for condition in conditions['any'], from the i-th on
RECURSIVE any_loop(_, _, _, _)
any_loop(children, i, dv, ev) ==
    IF i > Len(children) THEN Ret(FALSE, ev)
    ELSE LET r == check_conditions_recursively(children[i], dv) IN
         IF r.raised THEN Raise(ev \o r.events)
         ELSE IF r.ret THEN Ret(TRUE, ev \o r.events)
         ELSE any_loop(children, i + 1, dv, ev \o r.events)

\* the assertion compiled away
assert_stripped(children) == TRUE

\* assert len(conditions[...]) >= 1
assert_children(children) == Len(children) >= 1

check_conditions_recursively(conditions, dv) ==
    IF conditions.type # "dict" THEN Raise(<<>>)        \* no .keys()
    ELSE IF conditions.keys = <<"all">> THEN
        IF ~assert_children(conditions.all) THEN Raise(<<>>)
        ELSE all_loop(conditions.all, 1, dv, <<>>)
    ELSE IF conditions.keys = <<"any">> THEN
        IF ~assert_children(conditions.any) THEN Raise(<<>>)
        ELSE any_loop(conditions.any, 1, dv, <<>>)
    ELSE IF "any" \in Range(conditions.keys) \/ "all" \in Range(conditions.keys)
        THEN Raise(<<>>)
    ELSE check_condition(conditions, dv)

----------------------------------------------------------------------------
(* engine.py: actions.  The actions provider: the members it exposes, and  *)
(* those of them whose invocation raises.                                  *)

DefinedActions ==
    [exposed |-> {"approve", "notify", "explode"}, raising |-> {"explode"}]

NoParams == {}

Call(n, p) == [name |-> n, params |-> p]

ActionCalls ==
    {Call("approve", NoParams), Call("notify", {<<"msg", "hi">>}),
     Call("explode", NoParams), Call("missing", NoParams)}

\* a loop that swallows the error of a call and goes on with the next call
RECURSIVE do_actions_keep_going(_, _, _, _)
do_actions_keep_going(actions, i, da, ev) ==
    IF i > Len(actions) THEN Ret(TRUE, ev)
    ELSE LET method_name == actions[i].name
             params == actions[i].params
         IN
         IF method_name \notin da.exposed
         THEN do_actions_keep_going(actions, i + 1, da, ev)
         ELSE do_actions_keep_going(actions, i + 1, da,
                                    Append(ev, ActEvent(method_name, params)))

\* for action in actions, from the i-th on
RECURSIVE do_actions_from(_, _, _, _)
do_actions_from(actions, i, da, ev) ==
    IF i > Len(actions) THEN Ret(TRUE, ev)
    ELSE LET method_name == actions[i].name
             params == actions[i].params
         IN
         IF method_name \notin da.exposed THEN Raise(ev)          \* fallback raises
         ELSE IF method_name \in da.raising
              THEN Raise(Append(ev, ActEvent(method_name, params)))
         ELSE do_actions_from(actions, i + 1, da, Append(ev, ActEvent(method_name, params)))

\* a loop that starts at the second call
do_actions_skip_first(actions, da) == do_actions_from(actions, 2, da, <<>>)

do_actions(actions, da) == do_actions_from(actions, 1, da, <<>>)

Rule(c, a) == [name |-> "", conditions |-> c, actions |-> a]

\* run, from the rule as parsed: lines 57-62
run(rule_parsed, dv, da) ==
    LET rule_triggered == check_conditions_recursively(rule_parsed.conditions, dv) IN
    IF rule_triggered.raised THEN Raise(rule_triggered.events)
    ELSE IF rule_triggered.ret THEN
        LET done == do_actions(rule_parsed.actions, da) IN
        IF done.raised THEN Raise(rule_triggered.events \o done.events)
        ELSE Ret(TRUE, rule_triggered.events \o done.events)
    ELSE Ret(FALSE, rule_triggered.events)

----------------------------------------------------------------------------
(* Python strings: a str is the sequence of its characters *)

Whitespace == {" ", "\t", "\n"}

Digits == {"0", "1", "2", "3", "4", "5", "6", "7", "8", "9"}

UpperCase == <<"A", "B", "C", "D", "E", "F", "G", "H", "I", "J", "K", "L", "M", "N", "O", "P", "Q", "R", "S", "T", "U", "V", "W", "X", "Y", "Z">>
LowerCase == <<"a", "b", "c", "d", "e", "f", "g", "h", "i", "j", "k", "l", "m", "n", "o", "p", "q", "r", "s", "t", "u", "v", "w", "x", "y", "z">>

\* the lower case letter of each upper case letter
LowerOf ==
    [c \in {UpperCase[k] : k \in 1..Len(UpperCase)} |->
        LowerCase[CHOOSE k \in 1..Len(UpperCase) : UpperCase[k] = c]]

\* str.lower()
lower(s) == [i \in 1..Len(s) |-> IF s[i] \in DOMAIN LowerOf THEN LowerOf[s[i]] ELSE s[i]]

RECURSIVE lstrip(_, _)
lstrip(s, chars) ==
    IF s # <<>> /\ s[1] \in chars THEN lstrip(Tail(s), chars) ELSE s

RECURSIVE rstrip(_, _)
rstrip(s, chars) ==
    IF s # <<>> /\ s[Len(s)] \in chars THEN rstrip(SubSeq(s, 1, Len(s) - 1), chars) ELSE s

\* str.strip(chars); str.strip() is strip(s, Whitespace)
strip(s, chars) == rstrip(lstrip(s, chars), chars)

\* str.startswith(prefix)
startswith(s, prefix) ==
    Len(s) >= Len(prefix) /\ SubSeq(s, 1, Len(prefix)) = prefix

\* the positions of the character c in s
Positions(s, c) == {i \in 1..Len(s) : s[i] = c}

Min(S) == CHOOSE x \in S : \A y \in S : x <= y

Max(S) == CHOOSE x \in S : \A y \in S : x >= y

\* str.split(c, 1)
split_once(s, c) ==
    LET ps == Positions(s, c) IN
    IF ps = {} THEN <<s>>
    ELSE LET i == Min(ps) IN
         <<SubSeq(s, 1, i - 1), SubSeq(s, i + 1, Len(s))>>

\* str.rsplit(c, 1)
rsplit_once(s, c) ==
    LET ps == Positions(s, c) IN
    IF ps = {} THEN <<s>>
    ELSE LET i == Max(ps) IN
         <<SubSeq(s, 1, i - 1), SubSeq(s, i + 1, Len(s))>>

\* str.split(c)
RECURSIVE split(_, _)
split(s, c) ==
    LET parts == split_once(s, c) IN
    IF Len(parts) = 1 THEN parts
    ELSE <<parts[1]>> \o split(parts[2], c)

\* "".join(strs)
RECURSIVE join(_)
join(strs) == IF strs = <<>> THEN <<>> ELSE Head(strs) \o join(Tail(strs))

\* sep.join(strs)
RECURSIVE join_with(_, _)
join_with(strs, sep) ==
    IF Len(strs) <= 1 THEN join(strs)
    ELSE Head(strs) \o sep \o join_with(Tail(strs), sep)

\* Python's None where a str is expected
None == <<"None">>

----------------------------------------------------------------------------
(* parser.py: RuleParser.parsestr, the loop over the lines.  rules is the  *)
(* OrderedDict, as the sequence of its items in insertion order.           *)

Names(rs) == {rs[i].name : i \in 1..Len(rs)}

Index(rs, name) == CHOOSE i \in 1..Len(rs) : rs[i].name = name

NewBody(name) == [name |-> name, conditions |-> <<>>, actions |-> <<>>]

\* rules[rulename] = {'conditions': [], 'actions': []}
set_item(rs, name) ==
    IF name \in Names(rs)
    THEN [rs EXCEPT ![Index(rs, name)] = NewBody(name)]
    ELSE Append(rs, NewBody(name))

LoopState(rs, name, cond, act) ==
    [rules |-> rs, rulename |-> name, is_condition |-> cond, is_action |-> act,
     ignore_line |-> FALSE, raised |-> FALSE]

\* line.lower().strip().startswith(keyword)
starts(line, keyword) == startswith(strip(lower(line), Whitespace), keyword)

\* if line...startswith('rule'): lines 225-232
on_rule(st, line) ==
    IF ~starts(line, <<"r", "u", "l", "e">>) THEN st
    ELSE IF Len(split_once(line, " ")) < 2 THEN [st EXCEPT !.raised = TRUE]
    ELSE LET name == strip(split_once(line, " ")[2], {"\""}) IN
         [st EXCEPT !.is_condition = FALSE, !.is_action = FALSE,
                    !.rulename = name, !.rules = set_item(st.rules, name)]

\* if line...startswith('when'): lines 233-236
on_when(st, line) ==
    IF ~starts(line, <<"w", "h", "e", "n">>) THEN st
    ELSE [st EXCEPT !.ignore_line = TRUE, !.is_condition = TRUE, !.is_action = FALSE]

\* a 'then' that leaves is_condition as it is
on_then_keeps_condition(st, line) ==
    IF ~starts(line, <<"t", "h", "e", "n">>) THEN st
    ELSE [st EXCEPT !.ignore_line = TRUE, !.is_action = TRUE]

\* if line...startswith('then'): lines 237-240
on_then(st, line) ==
    IF ~starts(line, <<"t", "h", "e", "n">>) THEN st
    ELSE [st EXCEPT !.ignore_line = TRUE, !.is_condition = FALSE, !.is_action = TRUE]

\* if line...startswith('end'): lines 241-244
on_end(st, line) ==
    IF ~starts(line, <<"e", "n", "d">>) THEN st
    ELSE [st EXCEPT !.ignore_line = TRUE, !.is_condition = FALSE, !.is_action = FALSE]

\* rules[rulename][collector].append(line.strip()): rules[None] is a KeyError
append_line(st, collector, line) ==
    IF st.raised THEN st
    ELSE IF st.rulename \notin Names(st.rules) THEN [st EXCEPT !.raised = TRUE]
    ELSE LET i == Index(st.rules, st.rulename)
             stripped == strip(line, Whitespace)
         IN
         IF collector = "conditions"
         THEN [st EXCEPT !.rules[i].conditions = Append(@, stripped)]
         ELSE [st EXCEPT !.rules[i].actions = Append(@, stripped)]

\* lines 245-248
collect(st, line) ==
    LET c == IF st.is_condition /\ ~st.ignore_line
             THEN append_line(st, "conditions", line) ELSE st
    IN IF c.is_action /\ ~c.ignore_line THEN append_line(c, "actions", line) ELSE c

\* the body of the for loop: lines 224-248
parse_line(st, line) ==
    LET a == on_rule([st EXCEPT !.ignore_line = FALSE], line) IN
    IF a.raised THEN a
    ELSE collect(on_end(on_then(on_when(a, line), line), line), line)

----------------------------------------------------------------------------
(* parser.py: the values of a parse.  A Python value carries its type; a   *)
(* float is kept as the text of its literal.                               *)

PyInt(n) == [pytype |-> "int", int |-> n, chars |-> <<>>, bool |-> FALSE]
PyFloat(s) == [pytype |-> "float", int |-> 0, chars |-> s, bool |-> FALSE]
PyStr(s) == [pytype |-> "str", int |-> 0, chars |-> s, bool |-> FALSE]
PyBool(b) == [pytype |-> "bool", int |-> 0, chars |-> <<>>, bool |-> b]
PyNone == [pytype |-> "NoneType", int |-> 0, chars |-> <<>>, bool |-> FALSE]

\* isinstance(value, value_type): bool is a subclass of int
isinstance(value, value_type) ==
    value.pytype = value_type \/ (value_type = "int" /\ value.pytype = "bool")

DigitValue(c) == CHOOSE d \in 0..9 : <<"0", "1", "2", "3", "4", "5", "6", "7", "8", "9">>[d + 1] = c

RECURSIVE Decimal(_)
Decimal(s) == IF s = <<>> THEN 0 ELSE 10 * Decimal(SubSeq(s, 1, Len(s) - 1)) + DigitValue(s[Len(s)])

Unsigned(s) == IF s # <<>> /\ s[1] = "-" THEN Tail(s) ELSE s

\* the literals int() accepts, among the words over digits, '-' and '.'
IsIntLiteral(s) == Unsigned(s) # <<>> /\ \A i \in 1..Len(Unsigned(s)) : Unsigned(s)[i] \in Digits

\* the literals float() accepts, among those words
IsFloatLiteral(s) ==
    LET u == Unsigned(s) IN
    /\ \A i \in 1..Len(u) : u[i] \in Digits \cup {"."}
    /\ Cardinality(Positions(u, ".")) <= 1
    /\ \E i \in 1..Len(u) : u[i] \in Digits

\* ComparisonExpr._parse_value: [raised, value]
parse_value(value) ==
    IF value = <<"n", "o", "t", "b", "l", "a", "n", "k">> \/ startswith(value, <<"'">>)
        THEN [raised |-> FALSE, value |-> PyStr(value)]
    ELSE IF startswith(value, <<"[">>) THEN [raised |-> FALSE, value |-> PyStr(value)]
    ELSE IF lower(value) \in {<<"t", "r", "u", "e">>, <<"f", "a", "l", "s", "e">>}
        THEN [raised |-> FALSE, value |-> PyBool(lower(value) = <<"t", "r", "u", "e">>)]
    ELSE IF "." \in Range(value)
        THEN IF IsFloatLiteral(value) THEN [raised |-> FALSE, value |-> PyFloat(value)]
             ELSE [raised |-> TRUE, value |-> PyNone]
    ELSE IF IsIntLiteral(value)
        THEN [raised |-> FALSE,
              value |-> PyInt(IF value[1] = "-" THEN 0 - Decimal(Tail(value))
                              ELSE Decimal(value))]
    ELSE [raised |-> TRUE, value |-> PyNone]

\* what a parse yields: ComparisonExpr and LogicExpr objects, and lists
ComparisonExpr(field, operator, value) ==
    [type |-> "ComparisonExpr", field |-> field, operator |-> operator,
     value |-> value, items |-> <<>>]

AND == {<<"A", "N", "D">>, <<"a", "n", "d">>, <<"&">>}
OR == {<<"O", "R">>, <<"o", "r">>, <<"|">>}

\* LogicExpr.__init__
LogicExpr(token) ==
    [type |-> "LogicExpr", field |-> <<>>,
     operator |-> IF token \in AND THEN "AND" ELSE "OR",
     value |-> PyNone, items |-> <<>>]

List(items) ==
    [type |-> "list", field |-> <<>>, operator |-> <<>>, value |-> PyNone,
     items |-> items]

\* an entry of ComparisonExpr.OPERATORS[token]: the value type and the
\* Comparison, or for bool the Comparisons of True and of False
Entry(value_type, name) ==
    [value_type |-> value_type, nested |-> FALSE, name |-> name, name_false |-> name]

BoolEntry(name_true, name_false) ==
    [value_type |-> "bool", nested |-> TRUE, name |-> name_true, name_false |-> name_false]

OperatorTokens ==
    {<<"=">>, <<">">>, <<"<">>, <<">", "=">>, <<"<", "=">>, <<"s", "t", "a", "r", "t", "s", "w", "i", "t", "h">>, <<"e", "n", "d", "s", "w", "i", "t", "h">>, <<"i", "n">>,
     <<"c", "o", "n", "t", "a", "i", "n", "e", "d", "b", "y">>, <<"m", "a", "t", "c", "h", "e", "s">>, <<"n", "o", "t", " ", "i", "n">>, <<"n", "o", "t", " ", "c", "o", "n", "t", "a", "i", "n", "e", "d", "b", "y">>, <<"a", "l", "l", " ", "i", "n">>,
     <<"o", "n", "e", " ", "i", "n">>, <<"e", "x", "a", "c", "t", "l", "y", " ", "o", "n", "e", " ", "i", "n">>, <<"i", "s">>}

\* ComparisonExpr.OPERATORS, each dict in the order of its items
OPERATORS ==
    [token \in OperatorTokens |->
        CASE token = <<"=">> -> <<Entry("int", "equal_to"), Entry("str", "equal_to")>>
          [] token = <<">">> -> <<Entry("int", "greater_than")>>
          [] token = <<"<">> -> <<Entry("int", "less_than")>>
          [] token = <<">", "=">> -> <<Entry("int", "greater_than_or_equal_to")>>
          [] token = <<"<", "=">> -> <<Entry("int", "less_than_or_equal_to")>>
          [] token = <<"s", "t", "a", "r", "t", "s", "w", "i", "t", "h">> -> <<Entry("str", "starts_with")>>
          [] token = <<"e", "n", "d", "s", "w", "i", "t", "h">> -> <<Entry("str", "ends_with")>>
          [] token = <<"i", "n">> -> <<Entry("str", "contains"), Entry("list", "contains")>>
          [] token = <<"c", "o", "n", "t", "a", "i", "n", "e", "d", "b", "y">> -> <<Entry("list", "is_contained_by")>>
          [] token = <<"m", "a", "t", "c", "h", "e", "s">> -> <<Entry("str", "matches_regex")>>
          [] token = <<"n", "o", "t", " ", "i", "n">> -> <<Entry("list", "does_not_contain")>>
          [] token = <<"n", "o", "t", " ", "c", "o", "n", "t", "a", "i", "n", "e", "d", "b", "y">> -> <<Entry("list", "shares_no_elements_with")>>
          [] token = <<"a", "l", "l", " ", "i", "n">> -> <<Entry("list", "contains_all")>>
          [] token = <<"o", "n", "e", " ", "i", "n">> -> <<Entry("list", "shares_at_least_one_element_with")>>
          [] token = <<"e", "x", "a", "c", "t", "l", "y", " ", "o", "n", "e", " ", "i", "n">> ->
                <<Entry("list", "shares_exactly_one_element_with")>>
          [] token = <<"i", "s">> -> <<Entry("str", "non_empty"), BoolEntry("is_true", "is_false")>>]

----------------------------------------------------------------------------
(* parser.py: ExpressionParser.parse, the grammar of _create_parser.  A    *)
(* scan of s from position i yields [status, next, entry]: status is "ok", *)
(* "nomatch" or "raised" (a parse action raised).                          *)

Letters == Range(UpperCase) \cup Range(LowerCase)

Alphanums == Letters \cup Digits

NoMatch == [status |-> "nomatch", next |-> 0, entry |-> List(<<>>)]

Raised == [status |-> "raised", next |-> 0, entry |-> List(<<>>)]

Ok(next, entry) == [status |-> "ok", next |-> next, entry |-> entry]

\* the first position from i on whose character is not in chars
RECURSIVE run_end(_, _, _)
run_end(s, i, chars) ==
    IF i <= Len(s) /\ s[i] \in chars THEN run_end(s, i + 1, chars) ELSE i

skip_whitespace(s, i) == run_end(s, i, Whitespace)

matches_at(s, i, literal) ==
    i + Len(literal) - 1 <= Len(s) /\ SubSeq(s, i, i + Len(literal) - 1) = literal

\* oneOf(literals): the longest literal that matches at i, <<>> if none does
one_of(s, i, literals) ==
    LET found == {l \in literals : matches_at(s, i, l)} IN
    IF found = {} THEN <<>>
    ELSE CHOOSE l \in found : \A m \in found : Len(m) <= Len(l)

Keywords == <<<<"t", "r", "u", "e">>, <<"f", "a", "l", "s", "e">>, <<"n", "o", "t", "b", "l", "a", "n", "k">>>>

\* CaselessKeyword: the keyword in any case, not followed by a character
\* of an identifier
keyword_at(s, i, keyword) ==
    /\ i + Len(keyword) - 1 <= Len(s)
    /\ lower(SubSeq(s, i, i + Len(keyword) - 1)) = keyword
    /\ (i + Len(keyword) <= Len(s) => s[i + Len(keyword)] \notin Alphanums \cup {"_", "$"})

\* VALUE at i: [next, token], next = 0 when nothing matches
value_at(s, i) ==
    LET word == run_end(s, i, Digits \cup {"-", "."})
        closing(c) == {j \in (i + 1)..Len(s) : s[j] = c}
    IN
    IF word > i THEN [next |-> word, token |-> SubSeq(s, i, word - 1)]
    ELSE IF i <= Len(s) /\ s[i] = "'" /\ closing("'") # {}
        THEN [next |-> Min(closing("'")) + 1, token |-> SubSeq(s, i, Min(closing("'")))]
    ELSE IF i <= Len(s) /\ s[i] = "[" /\ closing("]") # {}
        THEN [next |-> Min(closing("]")) + 1, token |-> SubSeq(s, i, Min(closing("]")))]
    ELSE IF \E k \in 1..Len(Keywords) : keyword_at(s, i, Keywords[k])
        THEN LET k == Min({n \in 1..Len(Keywords) : keyword_at(s, i, Keywords[n])}) IN
             [next |-> i + Len(Keywords[k]), token |-> Keywords[k]]
    ELSE [next |-> 0, token |-> <<>>]

\* COMPARISON = FIELD + OPERATOR + VALUE with its parse action
\* ComparisonExpr, read token by token: FIELD is s[f..f_end-1], the
\* operator token starts at o, the VALUE at v
comparison_made(field, operator, value, parsed) ==
    IF value.next = 0 THEN NoMatch
    ELSE IF parsed.raised THEN Raised
    ELSE Ok(value.next, ComparisonExpr(field, operator, parsed.value))

comparison_value(s, field, operator, value) ==
    comparison_made(field, operator, value, parse_value(value.token))

comparison_operator(s, field, o, operator) ==
    IF operator = <<>> THEN NoMatch
    ELSE comparison_value(s, field, operator,
                          value_at(s, skip_whitespace(s, o + Len(operator))))

comparison_field_end(s, f, f_end, o) ==
    IF f_end = f THEN NoMatch
    ELSE comparison_operator(s, SubSeq(s, f, f_end - 1), o, one_of(s, o, OperatorTokens))

comparison_field(s, f, f_end) == comparison_field_end(s, f, f_end, skip_whitespace(s, f_end))

comparison_from(s, f) == comparison_field(s, f, run_end(s, f, Alphanums \cup {"_"}))

comparison_at(s, i) == comparison_from(s, skip_whitespace(s, i))

\* the group of one level of infixNotation: the operand alone, or the list
\* of the operands and the operators between them
group_of(all) ==
    IF all.status # "ok" THEN all
    ELSE IF Len(all.entry) = 1 THEN Ok(all.next, all.entry[1])
    ELSE Ok(all.next, List(all.entry))

\* (AND COMPARISON)*, from position i, after the items already read
RECURSIVE and_more(_, _, _)

and_operand(s, i, items, token, operand) ==
    IF operand.status = "nomatch" THEN Ok(i, items)
    ELSE IF operand.status = "raised" THEN Raised
    ELSE and_more(s, operand.next, items \o <<LogicExpr(token), operand.entry>>)

and_token(s, i, items, o, token) ==
    IF token = <<>> THEN Ok(i, items)
    ELSE and_operand(s, i, items, token, comparison_at(s, o + Len(token)))

and_from(s, i, items, o) == and_token(s, i, items, o, one_of(s, o, AND))

and_more(s, i, items) == and_from(s, i, items, skip_whitespace(s, i))

and_first(s, first) ==
    IF first.status # "ok" THEN first
    ELSE group_of(and_more(s, first.next, <<first.entry>>))

and_level(s, i) == and_first(s, comparison_at(s, i))

\* (OR and_level)*, from position i, after the items already read
RECURSIVE or_more(_, _, _)

or_operand(s, i, items, token, operand) ==
    IF operand.status = "nomatch" THEN Ok(i, items)
    ELSE IF operand.status = "raised" THEN Raised
    ELSE or_more(s, operand.next, items \o <<LogicExpr(token), operand.entry>>)

or_token(s, i, items, o, token) ==
    IF token = <<>> THEN Ok(i, items)
    ELSE or_operand(s, i, items, token, and_level(s, o + Len(token)))

or_from(s, i, items, o) == or_token(s, i, items, o, one_of(s, o, OR))

or_more(s, i, items) == or_from(s, i, items, skip_whitespace(s, i))

or_first(s, first) ==
    IF first.status # "ok" THEN first
    ELSE group_of(or_more(s, first.next, <<first.entry>>))

or_level(s, i) == or_first(s, and_level(s, i))

\* ExpressionParser.parse: parseString(text).asList()[0]; text after the
\* expression is left unread
parsed_of(r) ==
    IF r.status = "ok" THEN [raised |-> FALSE, value |-> r.entry]
    ELSE [raised |-> TRUE, value |-> List(<<>>)]

parse(string) == parsed_of(or_level(string, 1))

----------------------------------------------------------------------------
(* parser.py: RuleParser.parse_actions and the rules parsestr returns *)

\* shlex.split(s) for a text without quotes or escapes: its words
RECURSIVE shlex_split(_)
shlex_split(s) ==
    LET b == skip_whitespace(s, 1)
        e == IF b > Len(s) THEN b
             ELSE Min({j \in b..(Len(s) + 1) : j > Len(s) \/ s[j] \in Whitespace})
    IN
    IF b > Len(s) THEN <<>>
    ELSE <<SubSeq(s, b, e - 1)>> \o shlex_split(SubSeq(s, e, Len(s)))

\* {arg[0]: arg[1] for arg in args}: a later arg replaces an earlier one of
\* the same name
RECURSIVE dict_of(_)
dict_of(args) ==
    IF args = <<>> THEN {}
    ELSE LET last == args[Len(args)]
             rest == dict_of(SubSeq(args, 1, Len(args) - 1))
         IN {p \in rest : p[1] # last[1]} \cup {<<last[1], last[2]>>}

\* the body of parse_actions' loop, for one action line: [raised, value]
parse_action(action) ==
    LET parts == rsplit_once(strip(strip(action, Whitespace), {")"}), "(") IN
    IF Len(parts) # 2 THEN [raised |-> TRUE, value |-> Call(<<>>, {})]
    ELSE LET words == shlex_split(parts[2])
             args == [k \in 1..Len(words) |->
                        split_once(strip(strip(words[k], {","}), Whitespace), "=")]
         IN
         IF \E k \in 1..Len(args) : Len(args[k]) < 2
         THEN [raised |-> TRUE, value |-> Call(<<>>, {})]
         ELSE [raised |-> FALSE, value |-> Call(parts[1], dict_of(args))]

\* RuleParser.parse_actions: [raised, value]
parse_actions(actions) ==
    [raised |-> \E k \in 1..Len(actions) : parse_action(actions[k]).raised,
     value |-> [k \in 1..Len(actions) |-> parse_action(actions[k]).value]]

\* RuleParser.parse_conditions
parse_conditions(conditions) == parse(join(conditions))

\* rules_formated: lines 249-256
rules_formated(rs) ==
    [raised |-> \E k \in 1..Len(rs) :
                    \/ parse_conditions(rs[k].conditions).raised
                    \/ parse_actions(rs[k].actions).raised,
     value |-> [k \in 1..Len(rs) |->
                    [name |-> rs[k].name,
                     conditions |-> parse_conditions(rs[k].conditions).value,
                     actions |-> parse_actions(rs[k].actions).value]]]

----------------------------------------------------------------------------
(* parser.py: ComparisonExpr.convert and ExpressionParser.translate.  The  *)
(* dicts they build have the fields of the condition nodes above, a leaf's *)
(* name being the text of the field and its value a Python value.          *)

NoneLeaf ==
    [type |-> "NoneType", keys |-> <<>>, name |-> <<>>, operator |-> "",
     value |-> PyNone, all |-> <<>>, any |-> <<>>]

\* the entries of OPERATORS[operator] the value is an instance of
Matching(expr) ==
    {k \in 1..Len(OPERATORS[expr.operator]) :
        isinstance(expr.value, OPERATORS[expr.operator][k].value_type)}

\* ComparisonExpr.convert: the dict of the first matching entry, or None
convert(expr) ==
    IF Matching(expr) = {} THEN NoneLeaf
    ELSE LET value_comparison == OPERATORS[expr.operator][Min(Matching(expr))] IN
         Leaf(expr.field,
                  IF value_comparison.nested /\ ~expr.value.bool
                  THEN value_comparison.name_false ELSE value_comparison.name,
                  expr.value)

RECURSIVE translate(_)

\* for entry in rules, from the i-th on
RECURSIVE translate_from(_, _, _, _)
translate_from(items, i, operator, expressions) ==
    IF i > Len(items)
    THEN [raised |-> FALSE, value |-> Group(operator, expressions)]
    ELSE LET entry == items[i] IN
         CASE entry.type = "LogicExpr" ->
                translate_from(items, i + 1,
                               IF entry.operator = "AND" THEN "all" ELSE "any",
                               expressions)
           [] entry.type = "list" ->
                IF translate(entry).raised
                THEN [raised |-> TRUE, value |-> NoneLeaf]
                ELSE translate_from(items, i + 1, operator,
                                    Append(expressions, translate(entry).value))
           [] entry.type = "ComparisonExpr" ->
                translate_from(items, i + 1, operator,
                               Append(expressions, convert(entry)))
           [] OTHER -> [raised |-> TRUE, value |-> NoneLeaf]

\* ExpressionParser.translate(rules): an argument that is no list cannot
\* be iterated
translate(parsed) ==
    IF parsed.type # "list" THEN [raised |-> TRUE, value |-> NoneLeaf]
    ELSE translate_from(parsed.items, 1, "all", <<>>)

----------------------------------------------------------------------------
(* operators.py: the casts of StringType, BooleanType and                  *)
(* SelectMultipleType, and the operators of SelectType and                 *)
(* SelectMultipleType.  A list is a Python value that carries its items.   *)

PyList(items) ==
    [pytype |-> "list", int |-> 0, chars |-> <<>>, bool |-> FALSE, items |-> items]

\* the truth value of a Python value, as `or` takes it
truthy(v) ==
    CASE v.pytype = "NoneType" -> FALSE
      [] v.pytype = "bool" -> v.bool
      [] v.pytype = "int" -> v.int # 0
      [] v.pytype = "float" -> \E i \in 1..Len(v.chars) : v.chars[i] \in Digits \ {"0"}
      [] v.pytype = "str" -> v.chars # <<>>
      [] v.pytype = "list" -> v.items # <<>>

\* a cast that returns, a cast that raises AssertionError
Cast(v) == [raised |-> FALSE, value |-> v]

CastError == [raised |-> TRUE, value |-> PyNone]

\* a cast to str that lets every value through
string_cast_any(v) == Cast(IF truthy(v) THEN v ELSE PyStr(<<>>))

\* StringType._assert_valid_value_and_cast
string_cast(v) ==
    IF ~isinstance(IF truthy(v) THEN v ELSE PyStr(<<>>), "str") THEN CastError
    ELSE Cast(IF truthy(v) THEN v ELSE PyStr(<<>>))

\* BooleanType._assert_valid_value_and_cast: type(value) != bool
boolean_cast(v) == IF v.pytype # "bool" THEN CastError ELSE Cast(v)

\* hasattr(value, '__iter__'), on the values above
has_iter(v) == v.pytype \in {"list", "str"}

\* SelectMultipleType._assert_valid_value_and_cast
select_multiple_cast(v) == IF ~has_iter(v) THEN CastError ELSE Cast(v)

\* what iterating a value that passed the cast yields: the items of a
\* list, the characters of a str
items_of(v) ==
    IF v.pytype = "list" THEN v.items
    ELSE [i \in 1..Len(v.chars) |-> PyStr(<<v.chars[i]>>)]

\* SelectType._case_insensitive_equal_to
case_insensitive_equal_to(value_from_list, other_val) ==
    IF isinstance(value_from_list, "str") /\ isinstance(other_val, "str")
    THEN lower(value_from_list.chars) = lower(other_val.chars)
    ELSE value_from_list = other_val

\* SelectType.contains: for val in self.value, from the i-th on
RECURSIVE contains_from(_, _, _)
contains_from(select, i, other_val) ==
    IF i > Len(select) THEN FALSE
    ELSE IF case_insensitive_equal_to(select[i], other_val) THEN TRUE
    ELSE contains_from(select, i + 1, other_val)

contains(select, other_val) == contains_from(select, 1, other_val)

\* SelectMultipleType.shares_at_least_one_element_with: for other_val in
\* other_value, from the i-th on
RECURSIVE at_least_one_from(_, _, _)
at_least_one_from(select, others, i) ==
    IF i > Len(others) THEN FALSE
    ELSE IF contains(select, others[i]) THEN TRUE
    ELSE at_least_one_from(select, others, i + 1)

shares_at_least_one_element_with(select, others) == at_least_one_from(select, others, 1)

\* SelectMultipleType.shares_exactly_one_element_with: for other_val in
\* other_value, from the i-th on, with found_one
RECURSIVE exactly_one_from(_, _, _, _)
exactly_one_from(select, others, i, found_one) ==
    IF i > Len(others) THEN found_one
    ELSE IF contains(select, others[i])
         THEN IF found_one THEN FALSE
              ELSE exactly_one_from(select, others, i + 1, TRUE)
    ELSE exactly_one_from(select, others, i + 1, found_one)

shares_exactly_one_element_with(select, others) == exactly_one_from(select, others, 1, FALSE)

\* SelectMultipleType.shares_no_elements_with
shares_no_elements_with(select, others) == ~shares_at_least_one_element_with(select, others)

\* the classes of operators.py modelled, and the operators of
\* SelectMultipleType modelled
CastTypes == {"StringType", "BooleanType"}

SelectMultipleOperators ==
    {"shares_at_least_one_element_with", "shares_exactly_one_element_with",
     "shares_no_elements_with"}

\* cls._assert_valid_value_and_cast(value), for the class an operation is of
cast_of(operation, v) ==
    CASE operation = "StringType" -> string_cast(v)
      [] operation = "BooleanType" -> boolean_cast(v)
      [] OTHER -> select_multiple_cast(v)

\* the operator func of SelectMultipleType, on the items of the two values
apply_operator(operation, select, others) ==
    CASE operation = "shares_at_least_one_element_with" ->
            shares_at_least_one_element_with(select, others)
      [] operation = "shares_exactly_one_element_with" ->
            shares_exactly_one_element_with(select, others)
      [] operation = "shares_no_elements_with" ->
            shares_no_elements_with(select, others)

----------------------------------------------------------------------------
(* Inputs *)

Ages == {10, 30, 70}

Providers == {[f \in {KnownField} |-> a] : a \in Ages}

\* the rules given to run
RunRules ==
    {Rule(c, a) : c \in Trees(Leaves \cup EmptyGroups), a \in SeqsUpTo(ActionCalls, MaxActions)}

\* the rules of the lists given to run_all
RunAllRules ==
    {Rule(c, a) :
        c \in {Group("all", <<OlderThan18>>),
               Group("all", <<YoungerThan65, OlderThan18>>),
               Group("any", <<YoungerThan65, HeightLeaf>>)},
        a \in {<<>>, <<Call("approve", NoParams)>>,
               <<Call("notify", {<<"msg", "hi">>}), Call("approve", NoParams)>>,
               <<Call("approve", NoParams), Call("explode", NoParams),
                 Call("notify", {<<"msg", "hi">>})>>,
               <<Call("missing", NoParams), Call("approve", NoParams)>>}}

\* rule_was_triggered set to the result of the last rule
triggered_last_wins(was_triggered, res) == res

\* if result: rule_was_triggered = True
triggered_after(was_triggered, res) == IF res THEN TRUE ELSE was_triggered

\* the flag ignored
never_returns_early(stop, res) == FALSE

\* if result: ... if stop_on_first_trigger: return True
returns_early(stop, res) == res /\ stop

Tag(events, k) ==
    [j \in 1..Len(events) |->
        [rule |-> k, kind |-> events[j].kind, name |-> events[j].name,
         params |-> events[j].params]]

----------------------------------------------------------------------------
(* Spec: one call of run or of run_all on normalized rules *)

InitRun ==
    /\ op = "run"
    /\ pc = "call"
    /\ rule_list \in {<<r>> : r \in RunRules}
    /\ stop_on_first_trigger = FALSE

InitRunAll ==
    /\ op = "run_all"
    /\ pc = "loop"
    /\ rule_list \in SeqsUpTo(RunAllRules, MaxRules)
    /\ stop_on_first_trigger \in BOOLEAN

\* the nodes given to check_conditions_recursively, each carried as the
\* conditions of a rule without actions
InitCheck ==
    /\ op = "check_conditions_recursively"
    /\ pc = "call"
    /\ rule_list \in {<<Rule(c, <<>>)>> : c \in Trees(Leaves \cup EmptyGroups \cup Malformed)}
    /\ stop_on_first_trigger = FALSE

ParserIdle ==
    /\ text = <<>>
    /\ lineno = 1
    /\ rules = <<>>
    /\ rulename = None
    /\ is_condition = FALSE
    /\ is_action = FALSE

TranslateIdle ==
    /\ entries = List(<<>>)
    /\ translated = NoneLeaf

TypesIdle ==
    /\ raw_value = PyNone
    /\ other_value = PyNone
    /\ self_value = PyNone

Init ==
    /\ InitRun \/ InitRunAll \/ InitCheck
    /\ defined_actions = DefinedActions
    /\ ParserIdle
    /\ TranslateIdle
    /\ TypesIdle
    /\ defined_variables \in Providers
    /\ idx = 1
    /\ rule_was_triggered = FALSE
    /\ result = FALSE
    /\ log = <<>>

\* check_conditions_recursively(conditions, defined_variables)
CheckConditions ==
    /\ op = "check_conditions_recursively"
    /\ pc = "call"
    /\ LET r == check_conditions_recursively(rule_list[1].conditions, defined_variables) IN
        /\ pc' = IF r.raised THEN "raised" ELSE "returned"
        /\ result' = r.ret
        /\ log' = log \o Tag(r.events, 1)
    /\ UNCHANGED <<op, rule_list, defined_variables, defined_actions,
                   stop_on_first_trigger, idx, rule_was_triggered>>
    /\ UNCHANGED <<parserVars, translateVars, typeVars>>

\* run(rule, defined_variables, defined_actions), rule a dict
Run ==
    /\ op = "run"
    /\ pc = "call"
    /\ LET r == run(rule_list[1], defined_variables, defined_actions) IN
        /\ pc' = IF r.raised THEN "raised" ELSE "returned"
        /\ result' = r.ret
        /\ log' = log \o Tag(r.events, 1)
    /\ UNCHANGED <<op, rule_list, defined_variables, defined_actions,
                   stop_on_first_trigger, idx, rule_was_triggered>>
    /\ UNCHANGED <<parserVars, translateVars, typeVars>>

\* one iteration of run_all's for loop
RunAllIter ==
    /\ op = "run_all"
    /\ pc = "loop"
    /\ idx <= Len(rule_list)
    /\ LET r == run(rule_list[idx], defined_variables, defined_actions) IN
        /\ log' = log \o Tag(r.events, idx)
        /\ IF r.raised
           THEN /\ pc' = "raised"
                /\ UNCHANGED <<result, rule_was_triggered, idx>>
           ELSE /\ rule_was_triggered' = triggered_after(rule_was_triggered, r.ret)
                /\ IF returns_early(stop_on_first_trigger, r.ret)
                   THEN /\ pc' = "returned"
                        /\ result' = TRUE
                        /\ UNCHANGED idx
                   ELSE /\ idx' = idx + 1
                        /\ UNCHANGED <<pc, result>>
    /\ UNCHANGED <<op, rule_list, defined_variables, defined_actions,
                   stop_on_first_trigger>>
    /\ UNCHANGED <<parserVars, translateVars, typeVars>>

\* return rule_was_triggered
RunAllReturn ==
    /\ op = "run_all"
    /\ pc = "loop"
    /\ idx > Len(rule_list)
    /\ pc' = "returned"
    /\ result' = rule_was_triggered
    /\ UNCHANGED <<op, rule_list, defined_variables, defined_actions,
                   stop_on_first_trigger, idx, rule_was_triggered, log>>
    /\ UNCHANGED <<parserVars, translateVars, typeVars>>

Next == CheckConditions \/ Run \/ RunAllIter \/ RunAllReturn

Spec == Init /\ [][Next]_vars

----------------------------------------------------------------------------
(* SpecParser: RuleParser.parsestr on a rule text, called directly or by   *)
(* run and run_all on a rule given as text.                                *)

\* the lines the texts given to parsestr are made of
LineCatalog ==
    {<<"r", "u", "l", "e", " ", "\"", "r", "1", "\"">>, <<"r", "u", "l", "e", " ", "\"", "r", "2", "\"">>, <<" ", "W", "h", "e", "n">>, <<"t", "h", "e", "n">>, <<"E", "N", "D">>, <<"a", "g", "e", " ", ">", " ", "1", "8">>,
     <<" ", "a", "p", "p", "r", "o", "v", "e", "(", ")", " ">>, <<>>}

\* the rule of the specification's round trip, on one line and on six
ExampleOneLine == <<<<"r", "u", "l", "e", " ", "\"", "r", "1", "\"", " ", "w", "h", "e", "n", " ", "a", "g", "e", " ", ">", " ", "1", "8", " ", "t", "h", "e", "n", " ", "a", "p", "p", "r", "o", "v", "e", "(", ")", " ", "e", "n", "d">>>>

ExampleLines ==
    <<<<"r", "u", "l", "e", " ", "\"", "r", "1", "\"">>, <<"w", "h", "e", "n">>, <<"a", "g", "e", " ", ">", " ", "1", "8">>, <<"t", "h", "e", "n">>, <<"a", "p", "p", "r", "o", "v", "e", "(", ")">>, <<"e", "n", "d">>>>

\* the blocks the texts given to run and run_all are made of
Blocks ==
    {ExampleOneLine, ExampleLines,
     <<<<"r", "u", "l", "e", " ", "\"", "r", "2", "\"">>, <<"w", "h", "e", "n">>, <<"a", "g", "e", " ", ">", " ", "1", "8">>, <<"A", "N", "D", " ", "a", "g", "e", " ", "<", " ", "6", "5">>, <<"t", "h", "e", "n">>,
       <<" ", "n", "o", "t", "i", "f", "y", "(", "m", "s", "g", "=", "h", "i", ")">>, <<"e", "n", "d">>>>,
     <<<<"r", "u", "l", "e", " ", "\"", "r", "3", "\"">>, <<"w", "h", "e", "n">>, <<"a", "g", "e", " ", "<", " ", "1", "8", " ", "o", "r", " ", "a", "g", "e", " ", ">", " ", "6", "5">>, <<"t", "h", "e", "n">>, <<"a", "p", "p", "r", "o", "v", "e", "(", ")">>>>}

TextOf(lines) == join_with(lines, <<"\n">>)

\* the providers of the round trip: age() is 20; approve and notify exist
TextVariables == [f \in {<<"a", "g", "e">>} |-> 20]

TextActions == [exposed |-> {<<"a", "p", "p", "r", "o", "v", "e">>, <<"n", "o", "t", "i", "f", "y">>}, raising |-> {}]

InitParsestr ==
    /\ op = "parsestr"
    /\ text \in {TextOf(ls) : ls \in SeqsUpTo(LineCatalog, MaxLines)}
    /\ stop_on_first_trigger = FALSE

InitText ==
    /\ op \in {"run", "run_all"}
    /\ text \in {TextOf(join(bs)) : bs \in SeqsUpTo(Blocks, MaxBlocks)}
    /\ stop_on_first_trigger \in (IF op = "run_all" THEN BOOLEAN ELSE {FALSE})

InitParser ==
    /\ InitParsestr \/ InitText
    /\ pc = "parse"
    /\ lineno = 1
    /\ rules = <<>>
    /\ rulename = None
    /\ is_condition = FALSE
    /\ is_action = FALSE
    /\ rule_list = <<>>
    /\ defined_variables = TextVariables
    /\ defined_actions = TextActions
    /\ idx = 1
    /\ rule_was_triggered = FALSE
    /\ result = FALSE
    /\ log = <<>>
    /\ TranslateIdle
    /\ TypesIdle

\* text.split('\n')
Lines == split(text, "\n")

\* one iteration of parsestr's for loop: lines 224-248
ParseLine ==
    /\ pc = "parse"
    /\ lineno <= Len(Lines)
    /\ LET st == parse_line(LoopState(rules, rulename, is_condition, is_action),
                            Lines[lineno])
       IN
        /\ rules' = st.rules
        /\ rulename' = st.rulename
        /\ is_condition' = st.is_condition
        /\ is_action' = st.is_action
        /\ pc' = IF st.raised THEN "raised" ELSE "parse"
        /\ lineno' = IF st.raised THEN lineno ELSE lineno + 1
    /\ UNCHANGED <<op, text, rule_list, defined_variables, defined_actions,
                   stop_on_first_trigger, idx, rule_was_triggered, result, log>>
    /\ UNCHANGED <<translateVars, typeVars>>

\* rules_formated = [...]; return rules_formated: the caller goes on
ParseReturn ==
    /\ pc = "parse"
    /\ lineno > Len(Lines)
    /\ LET r == rules_formated(rules) IN
        /\ pc' = IF r.raised THEN "raised"
                 ELSE CASE op = "parsestr" -> "returned"
                        [] op = "run" -> "parsed"
                        [] op = "run_all" -> "loop"
        /\ rule_list' = IF r.raised THEN rule_list ELSE r.value
    /\ UNCHANGED <<op, defined_variables, defined_actions, stop_on_first_trigger, idx,
                   rule_was_triggered, result, log>>
    /\ UNCHANGED <<parserVars, translateVars, typeVars>>

\* run on a text, after parsestr: lines 50-62
RunStr ==
    /\ op = "run"
    /\ pc = "parsed"
    /\ IF Len(rule_list) = 1
       THEN LET r == run(rule_list[1], defined_variables, defined_actions) IN
            /\ pc' = IF r.raised THEN "raised" ELSE "returned"
            /\ result' = r.ret
            /\ log' = log \o Tag(r.events, 1)
       ELSE /\ pc' = "raised"
            /\ UNCHANGED <<result, log>>
    /\ UNCHANGED <<op, rule_list, defined_variables, defined_actions,
                   stop_on_first_trigger, idx, rule_was_triggered>>
    /\ UNCHANGED <<parserVars, translateVars, typeVars>>

NextParser == ParseLine \/ ParseReturn \/ RunStr \/ RunAllIter \/ RunAllReturn

SpecParser == InitParser /\ [][NextParser]_vars

----------------------------------------------------------------------------
(* SpecTranslate: ExpressionParser.translate on the output of a parse *)

ValueTokens ==
    {<<"1", "8">>, <<"1", ".", "5">>, <<"'", "a", "b", "c", "'">>, <<"[", "1", ",", "2", "]">>, <<"t", "r", "u", "e">>, <<"f", "a", "l", "s", "e">>, <<"n", "o", "t", "b", "l", "a", "n", "k">>}

\* the ComparisonExpr objects of the comparisons field token value
Comparisons ==
    {ComparisonExpr(<<"a", "g", "e">>, token, parse_value(v).value) :
        token \in OperatorTokens, v \in ValueTokens}

\* the entries that follow the first of a list
Operands ==
    {ComparisonExpr(<<"a", "g", "e">>, <<">">>, PyInt(18)),
     ComparisonExpr(<<"a", "g", "e">>, <<">">>, PyFloat(<<"1", ".", "5">>)),
     List(<<ComparisonExpr(<<"a", "g", "e">>, <<"<">>, PyInt(65)), LogicExpr(<<"o", "r">>),
            ComparisonExpr(<<"n", "a", "m", "e">>, <<"=">>, PyStr(<<"'", "a", "b", "c", "'">>))>>)}

\* the lists of n entries joined by AND or OR
RECURSIVE Chains(_)
Chains(n) ==
    IF n = 1 THEN {<<c>> : c \in Comparisons}
    ELSE {c \o <<LogicExpr(l), e>> : c \in Chains(n - 1), l \in {<<"A", "N", "D">>, <<"o", "r">>},
                                      e \in Operands}

ConditionTexts ==
    {<<"a", "g", "e", " ", ">", " ", "1", "8">>, <<"a", "g", "e", " ", ">", " ", "1", ".", "5">>, <<"a", "g", "e", " ", ">", " ", "1", "8", " ", "A", "N", "D", " ", "t", "a", "g", "s", " ", "a", "l", "l", " ", "i", "n", " ", "[", "1", ",", "2", "]">>,
     <<"a", "g", "e", " ", ">", " ", "1", ".", "5", " ", "o", "r", " ", "a", "g", "e", " ", "<", " ", "6", "5", " ", "a", "n", "d", " ", "n", "a", "m", "e", " ", "=", " ", "'", "a", "b", "c", "'">>}

\* the arguments of translate: lists of up to n comparisons, and a
\* comparison alone
TranslateInputs(n) ==
    Comparisons
    \cup UNION {{List(c) : c \in Chains(k)} : k \in 1..n}
    \cup {parse(t).value : t \in ConditionTexts}

InitTranslate ==
    /\ op = "translate"
    /\ pc = "call"
    /\ entries \in TranslateInputs(MaxTerms)
    /\ translated = NoneLeaf
    /\ ParserIdle
    /\ TypesIdle
    /\ rule_list = <<>>
    /\ defined_variables = TextVariables
    /\ defined_actions = TextActions
    /\ stop_on_first_trigger = FALSE
    /\ idx = 1
    /\ rule_was_triggered = FALSE
    /\ result = FALSE
    /\ log = <<>>

\* ExpressionParser.translate(rules)
Translate ==
    /\ op = "translate"
    /\ pc = "call"
    /\ LET r == translate(entries) IN
        /\ pc' = IF r.raised THEN "raised" ELSE "returned"
        /\ translated' = IF r.raised THEN translated ELSE r.value
    /\ UNCHANGED <<op, entries, rule_list, defined_variables, defined_actions,
                   stop_on_first_trigger, idx, rule_was_triggered, result, log>>
    /\ UNCHANGED <<parserVars, typeVars>>

NextTranslate == Translate

SpecTranslate == InitTranslate /\ [][NextTranslate]_vars


----------------------------------------------------------------------------
(* SpecTypes: the construction of a StringType or a BooleanType from a raw *)
(* value, and the construction of a SelectMultipleType followed by the     *)
(* call of one of its operators.                                           *)

\* the raw values given to the casts
RawValues ==
    {PyNone, PyStr(<<>>), PyStr(<<"a", "b", "c">>), PyStr(<<"t", "r", "u", "e">>), PyInt(0), PyInt(1), PyInt(5),
     PyFloat(<<"0", ".", "0">>), PyFloat(<<"1", ".", "5">>), PyBool(TRUE), PyBool(FALSE),
     PyList(<<>>), PyList(<<PyInt(1)>>), PyList(<<PyStr(<<>>)>>)}

\* the elements of the containers
Elements == {PyInt(1), PyStr(<<"a">>), PyStr(<<"A">>)}

\* the values given to SelectMultipleType and to its operators: the lists
\* of up to n elements, repeated elements included, and a value that is no
\* container
Containers(n) == {PyList(s) : s \in SeqsUpTo(Elements, n)} \cup {PyInt(1)}

InitTypes ==
    /\ \/ /\ op \in CastTypes
          /\ raw_value \in RawValues
          /\ other_value = PyNone
       \/ /\ op \in SelectMultipleOperators
          /\ raw_value \in Containers(MaxItems)
          /\ other_value \in Containers(MaxItems)
    /\ pc = "call"
    /\ self_value = PyNone
    /\ ParserIdle
    /\ TranslateIdle
    /\ rule_list = <<>>
    /\ defined_variables = TextVariables
    /\ defined_actions = TextActions
    /\ stop_on_first_trigger = FALSE
    /\ idx = 1
    /\ rule_was_triggered = FALSE
    /\ result = FALSE
    /\ log = <<>>

\* BaseType.__init__: self.value = self._assert_valid_value_and_cast(value)
Construct ==
    /\ op \in CastTypes \cup SelectMultipleOperators
    /\ pc = "call"
    /\ LET c == cast_of(op, raw_value) IN
        /\ pc' = IF c.raised THEN "raised"
                 ELSE IF op \in CastTypes THEN "returned" ELSE "constructed"
        /\ self_value' = IF c.raised THEN self_value ELSE c.value
    /\ UNCHANGED <<op, raw_value, other_value, rule_list, defined_variables,
                   defined_actions, stop_on_first_trigger, idx, rule_was_triggered,
                   result, log>>
    /\ UNCHANGED <<parserVars, translateVars>>

\* the call of an operator through type_operator's inner: the argument is
\* cast, then func is called
Operator ==
    /\ op \in SelectMultipleOperators
    /\ pc = "constructed"
    /\ LET arg == cast_of(op, other_value) IN
        /\ pc' = IF arg.raised THEN "raised" ELSE "returned"
        /\ result' = IF arg.raised THEN result
                     ELSE apply_operator(op, items_of(self_value), items_of(arg.value))
    /\ UNCHANGED <<op, raw_value, other_value, self_value, rule_list, defined_variables,
                   defined_actions, stop_on_first_trigger, idx, rule_was_triggered, log>>
    /\ UNCHANGED <<parserVars, translateVars>>

NextTypes == Construct \/ Operator

SpecTypes == InitTypes /\ [][NextTypes]_vars

----------------------------------------------------------------------------
(* What the claims speak of *)

IsDict(node) == node.type = "dict"

IsLeaf(node) == IsDict(node) /\ node.keys = LeafKeys

IsGroup(node) == IsDict(node) /\ (node.keys = <<"all">> \/ node.keys = <<"any">>)

Children(node) == IF node.keys = <<"all">> THEN node.all ELSE node.any

\* the node and every node below it
RECURSIVE Subtrees(_)
Subtrees(node) ==
    {node} \cup
    (IF IsGroup(node)
     THEN UNION {Subtrees(Children(node)[i]) : i \in 1..Len(Children(node))}
     ELSE {})

\* every Group has one combinator key and children, every leaf resolves
RECURSIVE WellFormed(_, _)
WellFormed(node, dv) ==
    \/ IsLeaf(node) /\ node.name \in DOMAIN dv /\ node.operator \in NumericOperators
    \/ /\ IsGroup(node)
       /\ Len(Children(node)) >= 1
       /\ \A i \in 1..Len(Children(node)) : WellFormed(Children(node)[i], dv)

\* the value of a well-formed tree, by the meaning of ALL and ANY
RECURSIVE Holds(_, _)
Holds(node, dv) ==
    IF IsLeaf(node)
    THEN CASE node.operator = "greater_than" -> dv[node.name] > node.value
           [] node.operator = "less_than" -> dv[node.name] < node.value
           [] node.operator = "equal_to" -> dv[node.name] = node.value
           [] node.operator = "greater_than_or_equal_to" -> dv[node.name] >= node.value
           [] node.operator = "less_than_or_equal_to" -> dv[node.name] =< node.value
    ELSE IF node.keys = <<"all">>
    THEN \A i \in 1..Len(node.all) : Holds(node.all[i], dv)
    ELSE \E i \in 1..Len(node.any) : Holds(node.any[i], dv)

\* the action calls logged for rule k, in the order of the log
ActionLog(k) ==
    LET sel == SelectSeq(log, LAMBDA e : e.rule = k /\ e.kind = "action") IN
    [j \in 1..Len(sel) |-> Call(sel[j].name, sel[j].params)]

VariableLog(k) == SelectSeq(log, LAMBDA e : e.rule = k /\ e.kind = "variable")

\* the call on rule k is over (it returned or it raised)
Evaluated(k) == idx > k \/ (idx = k /\ pc \in {"returned", "raised"})

\* the evaluation of rule k's condition tree
TreeOf(k) == check_conditions_recursively(rule_list[k].conditions, defined_variables)

Triggers(k) == ~TreeOf(k).raised /\ TreeOf(k).ret

RuleFails(k) == TreeOf(k).raised

\* the calls of a list that cannot complete: not exposed, or raising
BadCalls(actions) ==
    {j \in 1..Len(actions) :
        actions[j].name \notin DefinedActions.exposed
        \/ actions[j].name \in DefinedActions.raising}

FirstBad(actions) == CHOOSE j \in BadCalls(actions) : \A m \in BadCalls(actions) : j <= m

----------------------------------------------------------------------------
(* C1: when run returns on a normalized rule, it returns the value of the  *)
(* condition tree; if that is true the log holds every action call of the  *)
(* rule exactly once, in list order, and if it is false the log holds no   *)
(* action call at all.                                                     *)
C1_RunTriggersActions ==
    (op = "run" /\ pc = "returned") =>
        /\ result = TreeOf(1).ret
        /\ WellFormed(rule_list[1].conditions, defined_variables) =>
                result = Holds(rule_list[1].conditions, defined_variables)
        /\ result => ActionLog(1) = rule_list[1].actions
        /\ ~result => \A j \in 1..Len(log) : log[j].kind # "action"

C1_Witness ==
    /\ op = "run" /\ pc = "returned" /\ result
    /\ Len(rule_list[1].actions) = 2
    /\ rule_list[1].actions[1] # rule_list[1].actions[2]

(* C2: with stop_on_first_trigger false, a run_all that returns has        *)
(* evaluated every rule in list order, has executed the actions of exactly *)
(* the triggered rules, and returns true iff some rule triggered (false    *)
(* for the empty list).                                                    *)
C2_RunAllEvaluatesAll ==
    (op = "run_all" /\ pc = "returned" /\ ~stop_on_first_trigger) =>
        /\ result = (\E k \in 1..Len(rule_list) : Triggers(k))
        /\ \A k \in 1..Len(rule_list) :
            /\ VariableLog(k) = Tag(TreeOf(k).events, k)
            /\ VariableLog(k) # <<>>
            /\ ActionLog(k) = IF Triggers(k) THEN rule_list[k].actions ELSE <<>>
        /\ \A i, j \in 1..Len(log) : i < j => log[i].rule <= log[j].rule
        /\ rule_list = <<>> => ~result

C2_Witness ==
    /\ op = "run_all" /\ pc = "returned" /\ ~stop_on_first_trigger
    /\ Len(rule_list) = 2 /\ Triggers(1) /\ ~Triggers(2) /\ result
    /\ rule_list[1].actions # <<>>

(* C3: with stop_on_first_trigger true, a run_all that returns true has    *)
(* stopped at the first rule that triggers: nothing is logged for a later  *)
(* rule (no variable accessor, no action), and no action is logged for an  *)
(* earlier rule.                                                           *)
C3_StopOnFirstTrigger ==
    (op = "run_all" /\ pc = "returned" /\ stop_on_first_trigger) =>
        /\ result = (\E k \in 1..Len(rule_list) : Triggers(k))
        /\ result =>
              /\ idx \in 1..Len(rule_list)
              /\ Triggers(idx)
              /\ \A k \in 1..(idx - 1) : ~Triggers(k) /\ ActionLog(k) = <<>>
              /\ ActionLog(idx) = rule_list[idx].actions
              /\ \A j \in 1..Len(log) : log[j].rule <= idx

C3_Witness ==
    /\ op = "run_all" /\ pc = "returned" /\ stop_on_first_trigger /\ result
    /\ Len(rule_list) = 2 /\ idx = 1 /\ Triggers(2)
    /\ rule_list[2].actions # <<>>

(* C4: for every well-formed Group at every depth of a condition tree,     *)
(* check_conditions_recursively returns false for an ALL group iff it      *)
(* returns false for at least one child, and true for an ANY group iff it  *)
(* returns true for at least one child; on a well-formed tree it neither   *)
(* raises nor departs from the meaning of ALL and ANY.                     *)
C4_GroupSemantics ==
    (op = "check_conditions_recursively" /\ pc # "call") =>
        /\ \A g \in Subtrees(rule_list[1].conditions) :
              (IsGroup(g) /\ WellFormed(g, defined_variables)) =>
                 LET r == check_conditions_recursively(g, defined_variables)
                     child(i) == check_conditions_recursively(Children(g)[i],
                                                              defined_variables)
                 IN
                 /\ ~r.raised
                 /\ g.keys = <<"all">> =>
                       (~r.ret <=> \E i \in 1..Len(g.all) : ~child(i).ret)
                 /\ g.keys = <<"any">> =>
                       (r.ret <=> \E i \in 1..Len(g.any) : child(i).ret)
        /\ WellFormed(rule_list[1].conditions, defined_variables) =>
              /\ pc = "returned"
              /\ result = Holds(rule_list[1].conditions, defined_variables)

C4_Witness ==
    /\ op = "check_conditions_recursively" /\ pc = "returned" /\ result
    /\ WellFormed(rule_list[1].conditions, defined_variables)
    /\ rule_list[1].conditions.keys = <<"any">>
    /\ Len(rule_list[1].conditions.any) = 2
    /\ ~Holds(rule_list[1].conditions.any[1], defined_variables)

\* the tree holds a leaf that names a field the provider does not expose
HasUnknownLeaf(node, dv) ==
    \E n \in Subtrees(node) : IsLeaf(n) /\ n.name \notin DOMAIN dv

\* child evaluates to the value that decides a group of combinator c
Decides(c, child, dv) ==
    LET r == check_conditions_recursively(child, dv) IN
    ~r.raised /\ (r.ret <=> c = "any")

\* the tree holds such a leaf with no earlier sibling, in its own group or
\* in an enclosing one, that decides the group
RECURSIVE ReachesUnknownLeaf(_, _)
ReachesUnknownLeaf(node, dv) ==
    IF IsLeaf(node) THEN node.name \notin DOMAIN dv
    ELSE IF IsGroup(node) THEN
        \E i \in 1..Len(Children(node)) :
            /\ ReachesUnknownLeaf(Children(node)[i], dv)
            /\ \A j \in 1..(i - 1) : ~Decides(node.keys[1], Children(node)[j], dv)
    ELSE FALSE

(* C5 as stated: run raises, and executes no action, for every rule whose  *)
(* condition tree holds a leaf naming a field the variables provider does  *)
(* not expose, wherever the leaf sits.                                     *)
C5_UnknownFieldAlwaysRaises ==
    (op = "run" /\ pc # "call"
        /\ HasUnknownLeaf(rule_list[1].conditions, defined_variables)) =>
            /\ pc = "raised"
            /\ ActionLog(1) = <<>>

(* C5 amended: run raises, and executes no action, for every rule whose    *)
(* condition tree holds a leaf naming an unexposed field that no earlier   *)
(* sibling cuts off (a false child of an ALL, a true child of an ANY, in   *)
(* the leaf's group or an enclosing one).                                  *)
C5_ReachedUnknownFieldRaises ==
    (op = "run" /\ pc # "call"
        /\ ReachesUnknownLeaf(rule_list[1].conditions, defined_variables)) =>
            /\ pc = "raised"
            /\ ActionLog(1) = <<>>

C5_Witness ==
    /\ op = "run" /\ pc = "raised"
    /\ rule_list[1].conditions = Group("all", <<OlderThan18, HeightLeaf>>)
    /\ rule_list[1].actions # <<>>

\* the shapes of C6
BadShape(node) ==
    \/ node.keys = <<>>
    \/ "all" \in Range(node.keys) /\ "any" \in Range(node.keys)
    \/ /\ Range(node.keys) \cap {"all", "any"} # {}
       /\ Range(node.keys) \cap Range(LeafKeys) # {}
    \/ IsGroup(node) /\ Len(Children(node)) = 0

(* C6: check_conditions_recursively raises, and returns no boolean, on a   *)
(* node that is a Group without children, or has both keys all and any, or *)
(* has a combinator key next to leaf keys, or has no key, at the root of   *)
(* the tree given or below it.                                             *)
C6_BadShapeRaises ==
    (op = "check_conditions_recursively" /\ pc # "call") =>
        /\ \A n \in Subtrees(rule_list[1].conditions) :
              BadShape(n) => check_conditions_recursively(n, defined_variables).raised
        /\ BadShape(rule_list[1].conditions) => pc = "raised"

C6_Witness ==
    /\ op = "check_conditions_recursively" /\ pc = "raised"
    /\ rule_list[1].conditions = Group("all", <<>>)

(* C8: when the first call of a triggered rule that is not exposed, or     *)
(* that raises, is the b-th, the calls before it are logged once each in   *)
(* list order, no call after it is logged, and the error leaves run and    *)
(* run_all: the call ends raised at that rule and nothing is logged for a  *)
(* later rule.                                                             *)
C8_ActionErrorPropagates ==
    \A k \in 1..Len(rule_list) :
        (op \in {"run", "run_all"} /\ Evaluated(k) /\ Triggers(k)
            /\ BadCalls(rule_list[k].actions) # {}) =>
            LET actions == rule_list[k].actions
                b == FirstBad(actions)
                invoked == IF actions[b].name \in DefinedActions.exposed
                           THEN b ELSE b - 1
            IN
            /\ pc = "raised"
            /\ idx = k
            /\ ActionLog(k) = SubSeq(actions, 1, invoked)
            /\ \A j \in 1..Len(log) : log[j].rule <= k

C8_Witness ==
    /\ op = "run_all" /\ pc = "raised" /\ Len(rule_list) = 2 /\ idx = 1
    /\ Triggers(1) /\ Triggers(2)
    /\ Len(rule_list[1].actions) = 3 /\ FirstBad(rule_list[1].actions) = 2
    /\ rule_list[2].actions # <<>>

----------------------------------------------------------------------------
(* Claims on the rule text: under SpecParser and SpecTranslate *)

\* the call on the text is over
TextCallOver == op \in {"run", "run_all"} /\ pc \in {"returned", "raised"}

(* C7: run and run_all, given the text of the rule r1 with the comparison  *)
(* age > 18 and the action approve(), on one line or on six, and a         *)
(* variables provider whose age is 20, return true and invoke approve      *)
(* exactly once, with empty params.                                        *)
C7_TextRoundTrip ==
    (TextCallOver /\ text \in {TextOf(ExampleOneLine), TextOf(ExampleLines)}) =>
        /\ pc = "returned"
        /\ result = TRUE
        /\ ActionLog(1) = <<Call(<<"a", "p", "p", "r", "o", "v", "e">>, {})>>

\* parsestr's for loop raised at the line lineno
LoopRaised == pc = "raised" /\ lineno <= Len(Lines)

\* what the loop takes a line for: a rule line, a keyword line, by the mode
\* it selects, or a line to collect
KindOf(line) ==
    CASE starts(line, <<"r", "u", "l", "e">>) -> "rule"
      [] starts(line, <<"w", "h", "e", "n">>) -> "conditions"
      [] starts(line, <<"t", "h", "e", "n">>) -> "actions"
      [] starts(line, <<"e", "n", "d">>) -> "idle"
      [] OTHER -> "line"

\* the kinds of the lines the for loop is done with
KindsOf(ls) == [j \in 1..(lineno - 1) |-> KindOf(ls[j])]

\* the last rule line among them, 0 when there is none
LastRule(kinds) == Max({0} \cup {j \in 1..Len(kinds) : kinds[j] = "rule"})

\* the mode selected by the most recent keyword line of the current rule
\* before the line j
ModeBefore(kinds, j) ==
    LET ks == {k \in (LastRule(kinds) + 1)..(j - 1) : kinds[k] # "line"} IN
    IF ks = {} THEN "idle" ELSE kinds[Max(ks)]

\* the lines of the current rule that are no keyword lines and come under
\* the mode c, trimmed and in file order
Collected(ls, kinds, c) ==
    LET js == SelectSeq([j \in 1..Len(kinds) |-> j],
                        LAMBDA j : /\ j > LastRule(kinds)
                                   /\ kinds[j] = "line"
                                   /\ ModeBefore(kinds, j) = c)
    IN [k \in 1..Len(js) |-> strip(ls[js[k]], Whitespace)]

Mode == IF is_condition THEN "conditions" ELSE IF is_action THEN "actions" ELSE "idle"

CurrentBody == rules[Index(rules, rulename)]

(* C9: once parsestr's loop has passed a rule line, is_condition and       *)
(* is_action are never both set; the mode is the one selected by the most  *)
(* recent when, then or end line of the current rule (idle when there is   *)
(* none); and the current rule's conditions and actions are exactly the    *)
(* lines that are no keyword lines and came under that mode, trimmed and   *)
(* in file order: keyword lines and lines read when idle are in neither.   *)
C9_ModeAndCollectors ==
    LET ls == Lines
        kinds == KindsOf(ls)
    IN
    (op \in {"parsestr", "run", "run_all"} /\ ~LoopRaised /\ LastRule(kinds) > 0) =>
        /\ ~(is_condition /\ is_action)
        /\ Mode = ModeBefore(kinds, lineno)
        /\ rulename \in Names(rules)
        /\ CurrentBody.conditions = Collected(ls, kinds, "conditions")
        /\ CurrentBody.actions = Collected(ls, kinds, "actions")

C9_Witness ==
    /\ lineno > Len(Lines) /\ ~LoopRaised
    /\ rulename \in Names(rules)
    /\ CurrentBody.conditions # <<>>
    /\ CurrentBody.actions # <<>>
    /\ Mode = "idle"
    /\ KindOf(Lines[Len(Lines)]) = "idle"

\* the rules a text holds, one for each rule line in the order of those
\* lines: the name the rule line gives, and the lines collected from the
\* rule line to the next rule line
RulesOfText(ls, kinds) ==
    LET rs == SelectSeq([j \in 1..Len(kinds) |-> j], LAMBDA j : kinds[j] = "rule") IN
    [k \in 1..Len(rs) |->
        LET own == SubSeq(kinds, 1, IF k < Len(rs) THEN rs[k + 1] - 1 ELSE Len(kinds)) IN
        [name |-> strip(split_once(ls[rs[k]], " ")[2], {"\""}),
         conditions |-> Collected(ls, own, "conditions"),
         actions |-> Collected(ls, own, "actions")]]

(* C13: parsestr, called directly or by run and run_all, returns one rule   *)
(* for each rule line of the text, in the order of those lines, each with  *)
(* the conditions and the actions of the lines between its rule line and   *)
(* the next one, also when two rule lines give the same name.              *)
C13_OneRulePerRuleLine ==
    (op \in {"parsestr", "run", "run_all"} /\ pc \in {"returned", "parsed", "loop"}) =>
        LET expected == RulesOfText(Lines, KindsOf(Lines)) IN
        /\ Len(rule_list) = Len(expected)
        /\ \A k \in 1..Len(expected) :
            /\ rule_list[k].name = expected[k].name
            /\ rule_list[k].conditions = parse_conditions(expected[k].conditions).value
            /\ rule_list[k].actions = parse_actions(expected[k].actions).value

\* an entry holds a comparison whose value is of no type of the entries of
\* OPERATORS for its operator token
RECURSIVE HasUnmatched(_)
HasUnmatched(entry) ==
    CASE entry.type = "ComparisonExpr" -> Matching(entry) = {}
      [] entry.type = "list" ->
            \E i \in 1..Len(entry.items) : HasUnmatched(entry.items[i])
      [] OTHER -> FALSE

(* C10: translate, given a list that holds a comparison whose literal has  *)
(* no entry in OPERATORS for its operator token, ends with an error: it    *)
(* does not return a condition tree.                                       *)
C10_UnmatchedComparisonFails ==
    (op = "translate" /\ pc # "call" /\ entries.type = "list" /\ HasUnmatched(entries)) =>
        pc = "raised"

----------------------------------------------------------------------------
(* Claims on the types: under SpecTypes *)

\* an element up to the equality of SelectType.contains: a str in lower case
Folded(v) == IF v.pytype = "str" THEN PyStr(lower(v.chars)) ELSE v

\* the intersection of two containers
Shared(select, others) ==
    {Folded(select[i]) : i \in 1..Len(select)} \cap {Folded(others[i]) : i \in 1..Len(others)}

(* C11: on every field value and every comparison container, repeated      *)
(* elements included, shares_exactly_one_element_with returns true exactly *)
(* when the intersection of the two containers has one element, and        *)
(* shares_no_elements_with returns the negation of                         *)
(* shares_at_least_one_element_with.                                       *)
C11_ExactlyOneIsIntersection ==
    (op \in SelectMultipleOperators /\ pc = "returned") =>
        LET select == items_of(self_value)
            others == items_of(other_value)
        IN
        /\ op = "shares_exactly_one_element_with" =>
                result = (Cardinality(Shared(select, others)) = 1)
        /\ op = "shares_no_elements_with" =>
                result = ~shares_at_least_one_element_with(select, others)

\* the call of a constructor is over
Constructed(type) == op = type /\ pc \in {"returned", "raised"}

\* BooleanType rejects exactly the values that are not True or False
BooleanCastIsStrict == Constructed("BooleanType") => (pc = "raised" <=> raw_value.pytype # "bool")

(* C12, as stated: the construction of a StringType succeeds on every raw  *)
(* value, a string, None, a number, a boolean or a list, None giving the   *)
(* empty string; the construction of a BooleanType fails on every value    *)
(* that is not True or False.                                              *)
C12_TextCastNeverFails ==
    /\ Constructed("StringType") =>
            /\ pc = "returned"
            /\ raw_value = PyNone => self_value = PyStr(<<>>)
    /\ BooleanCastIsStrict

\* the values that are no str and that `or` replaces by the empty string
FalsyNonStrings == {PyNone, PyInt(0), PyFloat(<<"0", ".", "0">>), PyBool(FALSE), PyList(<<>>)}

(* C12, amended: the construction of a StringType succeeds on every str,   *)
(* kept as it is, and on None, 0, 0.0, False and the empty list, which     *)
(* give the empty string; it fails on every other value (a number that is  *)
(* not zero, True, a list with items).  The construction of a BooleanType  *)
(* fails on every value that is not True or False.                         *)
C12_TextCastRejectsOtherValues ==
    /\ Constructed("StringType") =>
            /\ pc = "raised" <=> (raw_value.pytype # "str" /\ raw_value \notin FalsyNonStrings)
            /\ pc = "returned" =>
                    self_value = IF raw_value.pytype = "str" THEN raw_value ELSE PyStr(<<>>)
    /\ BooleanCastIsStrict

C12_Witness ==
    /\ op = "StringType" /\ pc = "raised"
    /\ raw_value = PyInt(5)

====
